---- MODULE Spec2Model ----
(***************************************************************************)
(* Model of the vision-location-detector frame pipeline and streaming      *)
(* server.                                                                 *)
(*                                                                         *)
(*   Spec      the aiohttp WebServer of src/src/server.py: the /stream     *)
(*             handler of every connection, the background detection      *)
(*             loop, the /detections and /fps handlers, all on one event  *)
(*             loop, over a CameraCapture (src/src/camera.py).            *)
(*   FeedSpec  the lazy sequences of VideoFeedBase                         *)
(*             (src/src/interfaces/video_feed_base.py) over a frame       *)
(*             source and an optional detection delegate.                 *)
(*                                                                         *)
(* Time is counted in ticks of 0.1 s.  A frame is identified by the index  *)
(* of the read that produced it (and, on the server, the connection that   *)
(* read it); index 0 stands for None.                                      *)
(***************************************************************************)
EXTENDS Integers, Sequences, FiniteSets, TLC

\* ------------------------------------------------------------------ bounds
MaxReads == 2
MaxDet == 1
MaxFeedReads == 3
MaxProcs == 1
MaxStamps == 5

\* Two concurrent /stream connections.
Conns == {1, 2}

\* ----------------------------------------------------------------- values
\* A frame read by connection c as the k-th read of the camera.
Frame(k, c) == [id |-> k, by |-> c]
NoFrame == [id |-> 0, by |-> 0]
\* An image: the frame it shows and what is drawn on it (-1: nothing, the raw
\* frame; n >= 0: the overlay of a detection list of length n).
Raw(f) == [src |-> f, ovl |-> -1]
\* A detection list: its length and the frame detect was called on.
Det(f, n) == [of |-> f, n |-> n]
Overlay(f, d) == [src |-> f, ovl |-> d.n]
EmptyList == Det(NoFrame, 0)
Unset == Raw(NoFrame)
\* None in the detections slot of a yielded pair.
NoneDet == Det(NoFrame, -1)

\* Elapsed time since _fps_start_time seen by one read_frame call, in ticks.
ElapsedChoices == {5, 10}
FpsInterval == 10
ZeroFps == <<0, 1>>

VARIABLES
    camera,              \* "none": server.camera is None; "closed" / "open": is_opened()
    detector,            \* "none" | "ready" | "released"
    latest_detections,   \* the Latest-Detections Cache
    latest_frame,        \* _latest_frame: the pending-frame slot (NoFrame or a frame)
    latest_processed,    \* _latest_processed_frame (Unset until first assigned)
    detection_task,      \* _detection_task: "none" | "running" | "failed"
    task_creator,        \* the connection that created the detection task (0: none)
    loopBusy,            \* the connection whose synchronous code holds the event loop (0: none)
    pc,                  \* per connection: position in handle_stream
    status,              \* per connection: HTTP status of the response (0: none yet)
    outcome,             \* per connection: "none" | "returned" | "raised"
    pending,             \* per connection: the exception the finally block re-raises
    prepared,            \* per connection: response.prepare() has completed
    buf,                 \* per connection: the image encoded for the part being written
    skipped,             \* per connection: a frame of it failed to encode
    reads,               \* per connection: number of read_frame calls it made
    nreads,              \* number of read_frame calls made on the camera
    frame_count,         \* CameraCapture._frame_count
    current_fps          \* CameraCapture._current_fps as <<frames, ticks>>

\* The video feed pipeline (interfaces/video_feed_base.py, video_feed_base.py)
VARIABLES
    feed_class,          \* "delegate": interfaces/video_feed_base.py; "legacy": video_feed_base.py
    capture,             \* the feed's device handle: "none" | "unopened" | "open"
    handle_releases,     \* number of release() calls made on the handle initialize() created
    detection_delegate,  \* "none" | "set"
    postprocessors,      \* legacy feed: the kinds of its steps ("bare" | "tuple")
    measure_fps,         \* _measure_fps
    fps_timestamps,      \* _fps_timestamps, in ticks
    last_fps,            \* _last_fps as <<frames, ticks>>
    now,                 \* time.time(), in ticks
    fnreads,             \* number of read_frame calls made on the feed
    gen,                 \* the sequence being consumed: [mode, state]
    yielded,             \* the items it has yielded
    readLog,             \* the frames its reads returned (NoFrame: a failed read)
    callLog,             \* the delegate calls it made
    lastNext             \* what the consumer's last next() got: "item" | "stop" | "raise"

\* The application (main.py)
VARIABLES
    app_pc,              \* position in Application.run
    app_camera,          \* Application.camera: "none" | "failed" | "open" (how initialize went)
    app_detector,        \* Application.detector: "none" | "failed" | "ready"
    server_started,      \* server.run() has been called
    stop_cause,          \* why run left its try block
    exit_code,           \* the value of run's return statement (NoExit: none executed)
    cam_releases,        \* number of release() calls made on Application.camera
    det_releases         \* number of release() calls made on Application.detector

\* The server builder (server_builder.py), a pedestrian detector object (detector.py,
\* detection_services/pedestrian_detector.py) and the class of the camera object
VARIABLES
    builder_feed,        \* ServerBuilder.video_feed is not None
    builder_detector,    \* ServerBuilder.detector: "none" | "failed" | "ready"
    builder_enable_yolo,         \* ServerBuilder.enable_yolo
    builder_log,         \* the calls made on the builder and what each returned
    det_class,           \* "service": detection_services/pedestrian_detector.py; "legacy": detector.py
    model,               \* PedestrianDetector.model: "none" | "loaded"
    det_log,             \* the calls made on the detector and what each returned
    camera_class,        \* "capture": camera.py CameraCapture; "feed": camera_feed.py CameraFeed
    read_ok              \* what the last read_frame call on the camera object returned

srvVars == <<camera, detector, latest_detections, latest_frame, latest_processed,
             detection_task, task_creator, loopBusy, pc, status, outcome, pending, prepared,
             buf, skipped, reads, nreads, frame_count, current_fps>>

feedVars == <<feed_class, capture, handle_releases, detection_delegate, postprocessors, measure_fps, fps_timestamps,
              last_fps, now, fnreads, gen, yielded, readLog, callLog, lastNext>>

appVars == <<app_pc, app_camera, app_detector, server_started, stop_cause, exit_code,
             cam_releases, det_releases>>

extVars == <<builder_feed, builder_detector, builder_enable_yolo, builder_log, det_class, model,
             det_log, camera_class, read_ok>>

\* what the server's actions leave alone, and what the feed's actions leave alone
besideServer == <<feedVars, appVars, extVars>>
besideFeed == <<srvVars, appVars, extVars>>

vars == <<srvVars, feedVars, appVars, extVars>>

serverVars == <<camera, detector, latest_detections, latest_frame, latest_processed,
                detection_task, task_creator>>
connVars == <<pc, status, outcome, pending, prepared, buf, skipped, reads>>
cameraVars == <<nreads, frame_count, current_fps>>

ServerInit ==
    /\ camera \in {"none", "closed", "open"}
    /\ detector \in {"none", "ready"}
    /\ latest_detections = EmptyList
    /\ latest_frame = NoFrame
    /\ latest_processed = Unset
    /\ detection_task = "none"
    /\ task_creator = 0
    /\ loopBusy = 0
    /\ pc = [c \in Conns |-> "idle"]
    /\ status = [c \in Conns |-> 0]
    /\ outcome = [c \in Conns |-> "none"]
    /\ pending = [c \in Conns |-> "none"]
    /\ prepared = [c \in Conns |-> FALSE]
    /\ buf = [c \in Conns |-> Unset]
    /\ skipped = [c \in Conns |-> FALSE]
    /\ reads = [c \in Conns |-> 0]
    /\ nreads = 0
    /\ frame_count = 0
    /\ current_fps = ZeroFps

\* ------------------------------------------------------- handle_stream
\* Mutant: only a missing camera is refused, an unopened one is streamed.
StreamUnavailableNoneOnly == camera = "none"

\* server.py:127  self.camera is None or not self.camera.is_opened()
StreamUnavailable == camera = "none" \/ camera # "open"

\* server.py:127-139  the 503 answer, or the StreamResponse(status=200) object
HandleStreamStart(c) ==
    /\ pc[c] = "idle" /\ loopBusy = 0
    /\ IF StreamUnavailable
       THEN /\ status' = [status EXCEPT ![c] = 503]
            /\ pc' = [pc EXCEPT ![c] = "done"]
            /\ outcome' = [outcome EXCEPT ![c] = "returned"]
       ELSE /\ status' = [status EXCEPT ![c] = 200]
            /\ pc' = [pc EXCEPT ![c] = "prepare"]
            /\ UNCHANGED outcome
    /\ UNCHANGED besideServer
    /\ UNCHANGED <<serverVars, loopBusy, pending, prepared, buf, skipped, reads,
                   cameraVars>>

\* Mutant: a task is created whenever none is running.
CreatesTaskUnlessRunning == detection_task # "running"

\* server.py:143  if self._detection_task is None
CreatesTask == detection_task = "none"

\* server.py:141-144  await response.prepare(request) returns; the first connection
\* to get here creates the detection task
PrepareDone(c) ==
    /\ pc[c] = "prepare" /\ loopBusy = 0
    /\ prepared' = [prepared EXCEPT ![c] = TRUE]
    /\ IF CreatesTask
       THEN detection_task' = "running" /\ task_creator' = c
       ELSE UNCHANGED <<detection_task, task_creator>>
    /\ pc' = [pc EXCEPT ![c] = "read"]
    /\ UNCHANGED besideServer
    /\ UNCHANGED <<camera, detector, latest_detections, latest_frame, latest_processed,
                   loopBusy, status, outcome, pending, buf, skipped, reads,
                   cameraVars>>

\* server.py:141  prepare is awaited outside the try block: a reset or a
\* cancellation raised there leaves the handler
PrepareRaise(c) ==
    /\ pc[c] = "prepare" /\ loopBusy = 0
    /\ pc' = [pc EXCEPT ![c] = "done"]
    /\ outcome' = [outcome EXCEPT ![c] = "raised"]
    /\ UNCHANGED besideServer
    /\ UNCHANGED <<serverVars, loopBusy, status, pending, prepared, buf, skipped,
                   reads, cameraVars>>

\* server.py:149  self.camera.read_frame() is an ordinary (not awaited) call: the
\* connection's task keeps the event loop while the camera blocks
ReadBegin(c) ==
    /\ pc[c] = "read" /\ loopBusy = 0
    /\ nreads < MaxReads
    /\ pc' = [pc EXCEPT ![c] = "reading"]
    /\ loopBusy' = c
    /\ UNCHANGED besideServer
    /\ UNCHANGED <<serverVars, status, outcome, pending, prepared, buf, skipped,
                   reads, cameraVars>>

\* camera.py:69-72  capture is None or not isOpened(): (False, None) without a device
\* read; otherwise what the device returns
CameraReadOk(deviceOk) == camera = "open" /\ deviceOk

\* camera.py:75-84  _frame_count and _current_fps after a read
FrameCountAfter(ok, elapsed) ==
    IF ~ok THEN frame_count
    ELSE IF elapsed >= FpsInterval THEN 0 ELSE frame_count + 1

CurrentFpsAfter(ok, elapsed) ==
    IF ok /\ elapsed >= FpsInterval THEN <<frame_count + 1, elapsed>> ELSE current_fps

\* server.py:157  getattr(self, '_latest_processed_frame', frame)
ProcessedFrame(frame) == IF latest_processed = Unset THEN Raw(frame) ELSE latest_processed

\* Mutant: a failed read is retried at once, without awaiting anything.
AfterReadFailRetries == "read"

\* server.py:150-153  where the loop goes when the read fails
AfterReadFail == "sleep_read"

\* Mutant: an encode failure leaves the loop and closes the response.
AfterEncodeFailCloses == "eof"

\* server.py:162-165  where the loop goes when cv2.imencode fails
AfterEncodeFail == "sleep_enc"

\* Mutant: one read serves an iteration of every connection.
ReadsAfterBroadcast(c) == [d \in Conns |-> reads[d] + 1]

\* server.py:146-149  the read made by the iteration of connection c's own loop
ReadsAfter(c) == [reads EXCEPT ![c] = @ + 1]

\* server.py:149-166  the read returns; the frame goes to the pending slot and the
\* latest processed frame (or this frame, when there is none yet) is encoded
ReadEnd(c) ==
    /\ pc[c] = "reading" /\ loopBusy = c
    /\ \E deviceOk \in BOOLEAN, elapsed \in ElapsedChoices, encodeOk \in BOOLEAN :
         LET ok == CameraReadOk(deviceOk)
             frame == Frame(nreads + 1, c)
         IN /\ nreads' = nreads + 1
            /\ reads' = ReadsAfter(c)
            /\ frame_count' = FrameCountAfter(ok, elapsed)
            /\ current_fps' = CurrentFpsAfter(ok, elapsed)
            /\ loopBusy' = 0
            /\ IF ~ok
               THEN /\ pc' = [pc EXCEPT ![c] = AfterReadFail]
                    /\ UNCHANGED <<latest_frame, buf, skipped>>
               ELSE /\ latest_frame' = frame
                    /\ IF encodeOk
                       THEN /\ buf' = [buf EXCEPT ![c] = ProcessedFrame(frame)]
                            /\ pc' = [pc EXCEPT ![c] = "write"]
                            /\ UNCHANGED skipped
                       ELSE /\ pc' = [pc EXCEPT ![c] = AfterEncodeFail]
                            /\ skipped' = [skipped EXCEPT ![c] = TRUE]
                            /\ UNCHANGED buf
    /\ UNCHANGED besideServer
    /\ UNCHANGED <<camera, detector, latest_detections, latest_processed, detection_task,
                   task_creator, status, outcome, pending, prepared>>

\* server.py:152, 164  await asyncio.sleep(0.01) returns; continue
SleepDone(c) ==
    /\ pc[c] \in {"sleep_read", "sleep_enc"} /\ loopBusy = 0
    /\ pc' = [pc EXCEPT ![c] = "read"]
    /\ UNCHANGED besideServer
    /\ UNCHANGED <<serverVars, loopBusy, status, outcome, pending, prepared, buf,
                   skipped, reads, cameraVars>>

\* server.py:167-172  await response.write(...) returns: the part is with the client
WriteDone(c) ==
    /\ pc[c] = "write" /\ loopBusy = 0
    /\ buf' = [buf EXCEPT ![c] = Unset]
    /\ pc' = [pc EXCEPT ![c] = "yield"]
    /\ UNCHANGED besideServer
    /\ UNCHANGED <<serverVars, loopBusy, status, outcome, pending, prepared, skipped,
                   reads, cameraVars>>

\* server.py:173  await asyncio.sleep(0) returns
YieldDone(c) ==
    /\ pc[c] = "yield" /\ loopBusy = 0
    /\ pc' = [pc EXCEPT ![c] = "read"]
    /\ UNCHANGED besideServer
    /\ UNCHANGED <<serverVars, loopBusy, status, outcome, pending, prepared, buf,
                   skipped, reads, cameraVars>>

\* The suspension points of the loop (server.py:152, 164, 167, 173)
LoopSuspended(c) == pc[c] \in {"sleep_read", "sleep_enc", "write", "yield"}

\* Mutant: the except clause names CancelledError only.
CaughtCancelOnly(e) == e = "cancelled"

\* server.py:174  except (ConnectionResetError, asyncio.CancelledError)
Caught(e) == e \in {"reset", "cancelled"}

\* server.py:174-176  an exception raised at a suspension point of the loop: a reset
\* by the write, a cancellation at any of them.  A caught one is dropped (pass), any
\* other stays pending over the finally block.
LoopException(c) ==
    /\ LoopSuspended(c) /\ loopBusy = 0
    /\ \E e \in {"reset", "cancelled"} :
         /\ e = "reset" => pc[c] = "write"
         /\ pending' = [pending EXCEPT ![c] = IF Caught(e) THEN "none" ELSE e]
    /\ pc' = [pc EXCEPT ![c] = "eof"]
    /\ UNCHANGED besideServer
    /\ UNCHANGED <<serverVars, loopBusy, status, outcome, prepared, buf, skipped,
                   reads, cameraVars>>

\* Mutant: the finally block also releases the camera.
WriteEofReleasesCamera(c) ==
    /\ pc[c] = "eof" /\ loopBusy = 0
    /\ pc' = [pc EXCEPT ![c] = "done"]
    /\ outcome' = [outcome EXCEPT ![c] = IF pending[c] = "none" THEN "returned"
                                         ELSE "raised"]
    /\ camera' = "closed"
    /\ UNCHANGED besideServer
    /\ UNCHANGED <<detector, latest_detections, latest_frame, latest_processed,
                   detection_task, task_creator, loopBusy, status, pending, prepared, buf,
                   skipped, reads, cameraVars>>

\* server.py:176-178  finally: await response.write_eof(); then return response, or
\* the pending exception leaves the handler
WriteEof(c) ==
    /\ pc[c] = "eof" /\ loopBusy = 0
    /\ pc' = [pc EXCEPT ![c] = "done"]
    /\ outcome' = [outcome EXCEPT ![c] = IF pending[c] = "none" THEN "returned"
                                         ELSE "raised"]
    /\ UNCHANGED besideServer
    /\ UNCHANGED <<serverVars, loopBusy, status, pending, prepared, buf, skipped,
                   reads, cameraVars>>

\* -------------------------------------------------------- _detection_loop
\* What detect can do: return a list of n results, or raise.
DetectOutcomes == {[raised |-> FALSE, n |-> n] : n \in 0..MaxDet}
                      \cup {[raised |-> TRUE, n |-> 0]}

\* detector.py:116-117, 207-245  a detector whose model is None returns [] from
\* detect, and draw_detections of an empty list only copies the frame
DetectOutcomesOf(det) ==
    IF det = "uninit" THEN {d \in DetectOutcomes : ~d.raised /\ d.n = 0} ELSE DetectOutcomes
DrawRaisesOf(det) == IF det = "uninit" THEN {FALSE} ELSE BOOLEAN

\* Mutant: the task leaves the frame it took in the slot.
SlotAfterTakeKeeps == latest_frame

\* server.py:54-55  frame = self._latest_frame; self._latest_frame = None
SlotAfterTake == NoFrame

\* Mutant: the new results are added to the ones already in the cache.
StoreDetectionsMerged(old, new) == [of |-> new.of, n |-> old.n + new.n]

\* server.py:62  self.latest_detections = detections
StoreDetections(old, new) == new

\* server.py:52-64  one iteration that finds a pending frame: take it and empty the
\* slot, detect, store the list, draw, store the overlay.  An exception raised by the
\* delegate ends the task (nothing in the loop catches it), the assignments made
\* before it kept.
DetectionLoopStep ==
    /\ detection_task = "running" /\ loopBusy = 0
    /\ latest_frame # NoFrame /\ detector # "none"
    /\ latest_frame' = SlotAfterTake
    /\ \E d \in DetectOutcomesOf(detector), drawRaises \in DrawRaisesOf(detector) :
         LET frame == latest_frame
             detections == Det(frame, d.n)
         IN IF d.raised
            THEN /\ detection_task' = "failed"
                 /\ UNCHANGED <<latest_detections, latest_processed>>
            ELSE /\ latest_detections' = StoreDetections(latest_detections, detections)
                 /\ IF drawRaises
                    THEN /\ detection_task' = "failed"
                         /\ UNCHANGED latest_processed
                    ELSE /\ latest_processed' = Overlay(frame, detections)
                         /\ UNCHANGED detection_task
    /\ UNCHANGED besideServer
    /\ UNCHANGED <<camera, detector, task_creator, loopBusy, connVars, cameraVars>>

\* ------------------------------------------------- /detections and /fps
\* Mutant: the count is not taken from the list that is returned.
DetectionsResponseZeroCount ==
    [enabled |-> (detector # "none"), count |-> 0, detections |-> latest_detections]

\* server.py:190-197  the body of the /detections response
DetectionsResponse ==
    [enabled |-> (detector # "none"), count |-> latest_detections.n,
     detections |-> latest_detections]

\* camera.py:111-119  get_fps
GetFps == current_fps

\* server.py:210-218  the fps value of the /fps response (before rounding)
FpsResponse == IF camera = "none" THEN ZeroFps ELSE GetFps

\* server.py:180-199  the handler runs to its return without suspending and assigns
\* nothing
HandleDetections ==
    /\ loopBusy = 0
    /\ DetectionsResponse.count >= 0
    /\ UNCHANGED vars

\* Mutant: the /fps handler makes a frame-source read of its own.
HandleFpsReadsFrame ==
    /\ loopBusy = 0
    /\ nreads < MaxReads
    /\ nreads' = nreads + 1
    /\ frame_count' = FrameCountAfter(TRUE, FpsInterval)
    /\ current_fps' = CurrentFpsAfter(TRUE, FpsInterval)
    /\ UNCHANGED besideServer
    /\ UNCHANGED <<serverVars, loopBusy, pc, status, outcome, pending, prepared, buf,
                   skipped, reads>>

\* server.py:201-220  likewise
HandleFps ==
    /\ loopBusy = 0
    /\ FpsResponse[2] > 0
    /\ UNCHANGED vars

\* server.py:222-245  handle_settings builds its reply from the settings object alone
HandleSettings ==
    /\ loopBusy = 0
    /\ UNCHANGED vars

\* server.py:19-26  cors_middleware awaits the handler first and sets the three
\* Access-Control headers on the response object the handler returned; a handler that
\* raised gives it no response object
CorsHeadersSet(c) == pc[c] = "done" /\ outcome[c] = "returned"

\* server.py:128, 141  the header block of connection c's response is with the client:
\* response.prepare sends that of the StreamResponse; that of the web.Response is sent
\* once the handler and the middleware have returned it
HeadersSent(c) == prepared[c] \/ (pc[c] = "done" /\ outcome[c] = "returned")

\* One step of connection c's handler
ConnStep(c) ==
    \/ HandleStreamStart(c)
    \/ PrepareDone(c)
    \/ PrepareRaise(c)
    \/ ReadBegin(c)
    \/ ReadEnd(c)
    \/ SleepDone(c)
    \/ WriteDone(c)
    \/ YieldDone(c)
    \/ LoopException(c)
    \/ WriteEof(c)

ServerNext ==
    \/ \E c \in Conns : ConnStep(c)
    \/ DetectionLoopStep
    \/ HandleDetections
    \/ HandleFps
    \/ HandleSettings

\* ================================================================ the video feed
NoGen == [mode |-> "none", state |-> "none"]

\* interfaces/video_feed_base.py:15-20, camera_feed.py:21 : the feed as constructed
FeedConstructed ==
    /\ feed_class = "delegate"
    /\ capture = "none"
    /\ handle_releases = 0
    /\ detection_delegate = "none"
    /\ postprocessors = <<>>
    /\ measure_fps = FALSE
    /\ fps_timestamps = <<>>
    /\ last_fps = ZeroFps
    /\ now = 0
    /\ fnreads = 0
    /\ gen = NoGen
    /\ yielded = <<>>
    /\ readLog = <<>>
    /\ callLog = <<>>
    /\ lastNext = "none"

ProcKinds == {"bare", "tuple"}
ProcLists == UNION {[1..n -> ProcKinds] : n \in 0..MaxProcs}

\* A feed of either class; a legacy feed has had its postprocessing steps added
\* (video_feed_base.py:24-25)
FeedInit ==
    /\ \/ feed_class = "delegate" /\ postprocessors = <<>>
       \/ feed_class = "legacy" /\ postprocessors \in ProcLists
    /\ capture = "none"
    /\ handle_releases = 0
    /\ detection_delegate = "none"
    /\ measure_fps = FALSE
    /\ fps_timestamps = <<>>
    /\ last_fps = ZeroFps
    /\ now = 0
    /\ fnreads = 0
    /\ gen = NoGen
    /\ yielded = <<>>
    /\ readLog = <<>>
    /\ callLog = <<>>
    /\ lastNext = "none"

\* camera_feed.py:43-51, spoof_video_feed.py:19-28  initialize(): the handle is
\* assigned before it is tested
FeedInitialize ==
    /\ capture # "open"
    /\ \E opens \in BOOLEAN : capture' = IF opens THEN "open" ELSE "unopened"
    /\ handle_releases' = 0
    /\ UNCHANGED besideFeed
    /\ UNCHANGED <<feed_class, detection_delegate, postprocessors, measure_fps, fps_timestamps,
                   last_fps, now, fnreads, gen, yielded, readLog, callLog, lastNext>>

\* camera_feed.py:69-70  is_opened()
IsOpened == capture = "open"

\* Mutant: the handle's release is called whether or not a handle is held.
ReleasesHandleAlways(h) == TRUE

\* camera_feed.py:73, camera.py:123  if self.capture is not None
ReleasesHandle(h) == h # "none"

\* camera_feed.py:72-75, spoof_video_feed.py:46-49, camera.py:121-125  release(): the
\* handle, if there is one, is released and dropped
FeedRelease ==
    /\ capture' = "none"
    /\ handle_releases' = IF ReleasesHandle(capture) THEN handle_releases + 1
                           ELSE handle_releases
    /\ UNCHANGED besideFeed
    /\ UNCHANGED <<feed_class, detection_delegate, postprocessors, measure_fps, fps_timestamps,
                   last_fps, now, fnreads, gen, yielded, readLog, callLog, lastNext>>

\* interfaces/video_feed_base.py:57-58  set_detector_delegate, before streaming
SetDetectorDelegate ==
    /\ feed_class = "delegate"
    /\ gen = NoGen /\ detection_delegate = "none"
    /\ detection_delegate' = "set"
    /\ UNCHANGED besideFeed
    /\ UNCHANGED <<feed_class, capture, handle_releases, postprocessors, measure_fps, fps_timestamps, last_fps, now,
                   fnreads, gen, yielded, readLog, callLog, lastNext>>

\* Mutant: disabling measurement keeps the timestamps already in the window.
WindowOnToggleKeeps(value) == IF value THEN <<>> ELSE fps_timestamps

\* interfaces/video_feed_base.py:31-34  both branches assign an empty list
WindowOnToggle(value) == <<>>

\* interfaces/video_feed_base.py:27-34  the measure_fps setter
SetMeasureFps ==
    /\ feed_class = "delegate"
    /\ \E value \in BOOLEAN :
         /\ measure_fps' = value
         /\ fps_timestamps' = WindowOnToggle(value)
         /\ value # measure_fps \/ fps_timestamps # <<>>
    /\ UNCHANGED besideFeed
    /\ UNCHANGED <<feed_class, capture, handle_releases, detection_delegate, postprocessors, last_fps, now, fnreads,
                   gen, yielded, readLog, callLog, lastNext>>

StreamModes == IF feed_class = "delegate" THEN {"raw", "full", "data"} ELSE {"post_full"}

\* Calling get_raw_stream / get_full_stream / get_data_stream (the delegate feed) or
\* the legacy get_full_stream creates a generator; nothing runs until the first next().
GetStream ==
    /\ gen = NoGen \/ gen.state \in {"finished", "raised"}
    /\ \E mode \in StreamModes : gen' = [mode |-> mode, state |-> "fresh"]
    /\ yielded' = <<>> /\ readLog' = <<>> /\ callLog' = <<>>
    /\ lastNext' = "none"
    /\ UNCHANGED besideFeed
    /\ UNCHANGED <<feed_class, capture, handle_releases, detection_delegate, postprocessors, measure_fps,
                   fps_timestamps, last_fps, now, fnreads>>

\* Mutant: a read succeeds whether or not the feed holds an open handle.
FeedReadOkAlways(deviceOk) == TRUE

\* camera_feed.py:58-60, spoof_video_feed.py:38-41  read_frame: (False, None) without a
\* handle, otherwise what the device returns
FeedReadOk(deviceOk) == capture = "open" /\ deviceOk

FpsWindow == 10
TimeDeltas == {0, 6}

\* Mutant: a timestamp exactly one window old is dropped.
WindowAfterStrict(ts, t) == SelectSeq(Append(ts, t), LAMBDA x : x > t - FpsWindow)

\* interfaces/video_feed_base.py:69-72  append now, drop what is older than the window
WindowAfter(ts, t) == SelectSeq(Append(ts, t), LAMBDA x : x >= t - FpsWindow)

\* interfaces/video_feed_base.py:73-81
FpsOf(ts) ==
    IF Len(ts) > 1
    THEN IF ts[Len(ts)] - ts[1] > 0 THEN <<Len(ts) - 1, ts[Len(ts)] - ts[1]>> ELSE ZeroFps
    ELSE ZeroFps

\* Mutant: a failed read does not end the sequence; its frame (None) is yielded.
RawStopsNever(ok) == FALSE

\* interfaces/video_feed_base.py:65-66, video_feed_base.py:29-30
\* if not success or frame is None: break
RawStops(ok) == ~ok

Item(detections, image) == [det |-> detections, img |-> image]

\* Mutant: the defaults are an empty list and the frame.
FullDefaultsEmptyList(frame) == Item(EmptyList, Raw(frame))

\* interfaces/video_feed_base.py:87-88  detections = None; processed = frame
FullDefaults(frame) == Item(NoneDet, Raw(frame))

\* Mutant: the raw frame is yielded instead of what draw_detections returned.
FullItemRawFrame(frame, detections, processed) == Item(detections, Raw(frame))

\* interfaces/video_feed_base.py:92  yield (detections, processed)
FullItem(frame, detections, processed) == Item(detections, processed)

\* Mutant: the exception is swallowed and the loop goes on to the next frame.
OnDelegateRaiseSwallows == "suspended"

\* interfaces/video_feed_base.py:89-91, 107-108  no try around the delegate calls: the
\* exception leaves the generator, which is finished by it
OnDelegateRaise == "raised"

\* What draw_detections can do: return an annotated image, return the frame it was
\* given, or raise.
DrawOutcomes == {"overlay", "same", "raise"}
DrawReturn(frame, detections, r) ==
    IF r = "overlay" THEN Overlay(frame, detections) ELSE Raw(frame)

DetectCall(frame, d) ==
    [op |-> "detect", frame |-> frame, arg |-> NoneDet, raised |-> d.raised,
     rdet |-> IF d.raised THEN NoneDet ELSE Det(frame, d.n), rimg |-> Unset]
DrawCall(frame, detections, r) ==
    [op |-> "draw", frame |-> frame, arg |-> detections, raised |-> (r = "raise"),
     rdet |-> NoneDet,
     rimg |-> IF r = "raise" THEN Unset ELSE DrawReturn(frame, detections, r)]

Result(calls, items, state) == [calls |-> calls, items |-> items, state |-> state]

\* interfaces/video_feed_base.py:86-92  the body of get_full_stream's loop for one frame
FullBody(frame, d, r) ==
    IF detection_delegate = "none"
    THEN Result(<<>>, <<FullDefaults(frame)>>, "suspended")
    ELSE IF d.raised
    THEN Result(<<DetectCall(frame, d)>>, <<>>, OnDelegateRaise)
    ELSE LET detections == Det(frame, d.n)
         IN IF r = "raise"
            THEN Result(<<DetectCall(frame, d), DrawCall(frame, detections, r)>>, <<>>,
                        OnDelegateRaise)
            ELSE Result(<<DetectCall(frame, d), DrawCall(frame, detections, r)>>,
                        <<FullItem(frame, detections, DrawReturn(frame, detections, r))>>,
                        "suspended")

\* Mutant: get_data_stream runs the body of get_full_stream.
DataBodyAsFull(frame, d) == FullBody(frame, d, "overlay")

\* interfaces/video_feed_base.py:106-111  the body of get_data_stream's loop
DataBody(frame, d) ==
    IF detection_delegate = "none"
    THEN Result(<<>>, <<Item(NoneDet, Unset)>>, "suspended")
    ELSE IF d.raised
    THEN Result(<<DetectCall(frame, d)>>, <<>>, OnDelegateRaise)
    ELSE Result(<<DetectCall(frame, d)>>, <<Item(Det(frame, d.n), Unset)>>, "suspended")

\* interfaces/video_feed_base.py:60-82  get_raw_stream yields the frame
RawBody(frame) == Result(<<>>, <<Item(NoneDet, Raw(frame))>>, "suspended")

\* What a legacy postprocessing step returns for input x: a frame, or (frame, data)
StepFrame(x, i) == [step |-> i, slot |-> "frame", input |-> x]
StepData(x, i) == [step |-> i, slot |-> "data", input |-> x]

\* video_feed_base.py:36-44  the loop over the postprocessors: <<processed, data>>
RECURSIVE PostFullFrom(_, _, _)
PostFullFrom(i, processed, data) ==
    IF i > Len(postprocessors) THEN <<processed, data>>
    ELSE IF postprocessors[i] = "tuple"
         THEN PostFullFrom(i + 1, StepFrame(processed, i), StepData(processed, i))
         ELSE PostFullFrom(i + 1, StepFrame(processed, i), data)

\* video_feed_base.py:35-45  the body of the legacy get_full_stream's loop:
\* processed = frame; data = frame; ...; yield (data, processed)
PostFullBody(frame) ==
    LET out == PostFullFrom(1, Raw(frame), Raw(frame))
    IN Result(<<>>, <<Item(out[2], out[1])>>, "suspended")

Body(mode, frame, d, r) ==
    CASE mode = "raw" -> RawBody(frame)
      [] mode = "full" -> FullBody(frame, d, r)
      [] mode = "data" -> DataBody(frame, d)
      [] mode = "post_full" -> PostFullBody(frame)

\* The inputs of one next(): the device is read only through an open handle, detect is
\* called only by get_full_stream and get_data_stream with a delegate, draw_detections
\* only by get_full_stream.
DeviceChoices == IF capture = "open" THEN BOOLEAN ELSE {FALSE}
DetectChoices(mode) ==
    IF mode \in {"full", "data"} /\ detection_delegate # "none" /\ capture = "open"
    THEN DetectOutcomes ELSE {[raised |-> FALSE, n |-> 0]}
DrawChoices(mode) ==
    IF mode = "full" /\ detection_delegate # "none" /\ capture = "open"
    THEN DrawOutcomes ELSE {"same"}

\* Mutant: the window is fed whether or not measurement is enabled.
MeasuresAlways(mode) == TRUE

\* The legacy feed measures no FPS (video_feed_base.py:26-31)
Measures(mode) == mode # "post_full" /\ measure_fps

\* One next() on a live generator: read a frame (get_raw_stream), feed the FPS window,
\* run the mode's body, and yield, end or raise.  The read is one of at most maxReads,
\* the device answers one of devices, and time has advanced by one of deltas.
FeedNextWith(maxReads, devices, deltas) ==
    /\ gen.state \in {"fresh", "suspended"}
    /\ fnreads < maxReads
    /\ \E deviceOk \in devices, dt \in deltas, d \in DetectChoices(gen.mode),
          r \in DrawChoices(gen.mode) :
         LET ok == FeedReadOk(deviceOk)
             frame == IF ok THEN Frame(fnreads + 1, 0) ELSE NoFrame
             res == Body(gen.mode, frame, d, r)
         IN /\ fnreads' = fnreads + 1
            /\ now' = now + dt
            /\ readLog' = Append(readLog, frame)
            /\ IF RawStops(ok)
               THEN /\ gen' = [gen EXCEPT !.state = "finished"]
                    /\ lastNext' = "stop"
                    /\ UNCHANGED <<fps_timestamps, last_fps, yielded, callLog>>
               ELSE /\ IF Measures(gen.mode)
                       THEN /\ fps_timestamps' = WindowAfter(fps_timestamps, now')
                            /\ last_fps' = FpsOf(fps_timestamps')
                       ELSE UNCHANGED <<fps_timestamps, last_fps>>
                    /\ callLog' = callLog \o res.calls
                    /\ yielded' = yielded \o res.items
                    /\ gen' = [gen EXCEPT !.state = res.state]
                    /\ lastNext' = IF res.items # <<>> THEN "item" ELSE "raise"
    /\ UNCHANGED besideFeed
    /\ UNCHANGED <<feed_class, capture, handle_releases, detection_delegate, postprocessors, measure_fps>>

FeedNext == FeedNextWith(MaxFeedReads, DeviceChoices, TimeDeltas)

\* Time between two reads of a feed that delivers every frame, in ticks
StampDeltas == {0, 2, 3}

\* One next() of get_raw_stream on a feed whose device delivers a frame
FpsRead == FeedNextWith(MaxStamps, {TRUE}, StampDeltas)

\* next() on a generator that has ended or raised: StopIteration, nothing is read
NextAfterEnd ==
    /\ gen.state \in {"finished", "raised"}
    /\ lastNext # "stop"
    /\ lastNext' = "stop"
    /\ UNCHANGED besideFeed
    /\ UNCHANGED <<feed_class, capture, handle_releases, detection_delegate, postprocessors, measure_fps,
                   fps_timestamps, last_fps, now, fnreads, gen, yielded, readLog, callLog>>

FeedStep ==
    \/ FeedInitialize
    \/ FeedRelease
    \/ SetDetectorDelegate
    \/ SetMeasureFps
    \/ GetStream
    \/ FeedNext
    \/ NextAfterEnd

\* ================================================ the postprocessor pipeline
MaxSteps == 2
MaxPipeReads == 2

PipeLists == UNION {[1..n -> ProcKinds] : n \in 0..MaxSteps}
PipeModes == {"post_full", "post_processed", "post_data"}

\* The call of step i on input x
StepCall(x, i) == [op |-> "step", step |-> i, input |-> x]

\* video_feed_base.py:34-69, camera_base.py:33-57  what each consumption mode passes to
\* the next step and keeps, after a step returned result (a frame, or (frame, data)):
\* get_full_stream and get_processed_stream call proc(processed); get_data_stream
\* calls proc(data) with data = result[1], or the bare result
NextInput(mode, processed, data) == IF mode = "post_data" THEN data ELSE processed

RECURSIVE PipeFrom(_, _, _, _, _)
PipeFrom(mode, i, processed, data, calls) ==
    IF i > Len(postprocessors)
    THEN [processed |-> processed, data |-> data, calls |-> calls]
    ELSE LET x == NextInput(mode, processed, data)
             isTuple == postprocessors[i] = "tuple"
             called == Append(calls, StepCall(x, i))
         IN CASE mode = "post_full" ->
                   PipeFrom(mode, i + 1, StepFrame(x, i),
                            IF isTuple THEN StepData(x, i) ELSE data, called)
              [] mode = "post_processed" ->
                   PipeFrom(mode, i + 1, StepFrame(x, i), data, called)
              [] mode = "post_data" ->
                   PipeFrom(mode, i + 1, processed,
                            IF isTuple THEN StepData(x, i) ELSE StepFrame(x, i), called)

\* video_feed_base.py:45, 57, 69  what each mode yields for a frame
PipeBody(mode, frame) ==
    LET out == PipeFrom(mode, 1, Raw(frame), Raw(frame), <<>>)
        item == CASE mode = "post_full" -> Item(out.data, out.processed)
                  [] mode = "post_processed" -> Item(NoneDet, out.processed)
                  [] mode = "post_data" -> Item(out.data, Unset)
    IN Result(out.calls, <<item>>, "suspended")

\* Calling get_full_stream / get_processed_stream / get_data_stream of the legacy feed
PipeGetStream ==
    /\ gen = NoGen \/ gen.state = "finished"
    /\ fnreads < MaxPipeReads
    /\ \E mode \in PipeModes : gen' = [mode |-> mode, state |-> "fresh"]
    /\ yielded' = <<>> /\ readLog' = <<>> /\ callLog' = <<>>
    /\ lastNext' = "none"
    /\ UNCHANGED besideFeed
    /\ UNCHANGED <<feed_class, capture, handle_releases, detection_delegate,
                   postprocessors, measure_fps, fps_timestamps, last_fps, now, fnreads>>

\* video_feed_base.py:26-69  one next() on a legacy generator: get_raw_stream reads a
\* frame, the steps run in order, the mode's value is yielded; a failed read ends it
PipeNext ==
    /\ gen.state \in {"fresh", "suspended"}
    /\ fnreads < MaxPipeReads
    /\ \E deviceOk \in BOOLEAN :
         LET frame == IF deviceOk THEN Frame(fnreads + 1, 0) ELSE NoFrame
             res == PipeBody(gen.mode, frame)
         IN /\ fnreads' = fnreads + 1
            /\ readLog' = Append(readLog, frame)
            /\ IF ~deviceOk
               THEN /\ gen' = [gen EXCEPT !.state = "finished"]
                    /\ lastNext' = "stop"
                    /\ UNCHANGED <<yielded, callLog>>
               ELSE /\ callLog' = callLog \o res.calls
                    /\ yielded' = yielded \o res.items
                    /\ gen' = [gen EXCEPT !.state = res.state]
                    /\ lastNext' = "item"
    /\ UNCHANGED besideFeed
    /\ UNCHANGED <<feed_class, capture, handle_releases, detection_delegate,
                   postprocessors, measure_fps, fps_timestamps, last_fps, now>>

\* ============================================================ the server builder
MaxCalls == 3

\* server_builder.py:27-29; detector.py:75, pedestrian_detector.py:55; camera.py:31-32
ExtConstructed ==
    /\ builder_feed = FALSE
    /\ builder_detector = "none"
    /\ builder_enable_yolo = FALSE
    /\ builder_log = <<>>
    /\ det_class = "legacy"
    /\ model = "none"
    /\ det_log = <<>>
    /\ camera_class = "capture"
    /\ read_ok = FALSE

\* server.py:29-76  WebServer defines set_camera and set_detector, and no
\* set_video_feed
SetVideoFeedDefined == FALSE

\* server_builder.py:93-97  what build gives once it is past its guard: line 95 calls
\* self.server.set_video_feed
BuildReturn == IF SetVideoFeedDefined THEN "pair" ELSE "raised"

\* server_builder.py:90  `if not self.video_feed`: build calls initialize only when the
\* builder holds no feed object
BuildInitializes == ~builder_feed

\* server_builder.py:31-86  initialize() returning res.  Neither feed class nor
\* detector class has an `initialized` attribute, so an object that is already set is
\* initialized again; a new feed is assigned before it is initialized; a detector that
\* fails makes the feed be released.
BuilderInitializeBody(res) ==
    \E opens \in BOOLEAN, detOk \in BOOLEAN :
        /\ builder_feed' = TRUE
        /\ measure_fps' = TRUE
        /\ fps_timestamps' = WindowOnToggle(TRUE)
        /\ IF ~opens
           THEN /\ capture' = "unopened" /\ handle_releases' = 0
                /\ res = FALSE
                /\ UNCHANGED <<builder_detector, detection_delegate>>
           ELSE IF ~builder_enable_yolo
           THEN /\ capture' = "open" /\ handle_releases' = 0
                /\ res = TRUE
                /\ UNCHANGED <<builder_detector, detection_delegate>>
           ELSE IF ~detOk
           THEN /\ builder_detector' = "failed"
                /\ capture' = "none" /\ handle_releases' = 1
                /\ res = FALSE
                /\ UNCHANGED detection_delegate
           ELSE /\ builder_detector' = "ready"
                /\ capture' = "open" /\ handle_releases' = 0
                /\ detection_delegate' = "set"
                /\ res = TRUE

\* server_builder.py:31-86  a call of initialize()
BuilderInitialize ==
    /\ Len(builder_log) < MaxCalls
    /\ \E res \in BOOLEAN :
         /\ BuilderInitializeBody(res)
         /\ builder_log' = Append(builder_log, [op |-> "initialize",
                                                res |-> IF res THEN "true" ELSE "false"])
    /\ UNCHANGED <<builder_enable_yolo, det_class, model, det_log, camera_class, read_ok>>
    /\ UNCHANGED <<feed_class, postprocessors, last_fps, now, fnreads, gen, yielded,
                   readLog, callLog, lastNext>>
    /\ UNCHANGED <<srvVars, appVars>>

\* server_builder.py:88-97  a call of build()
BuilderBuild ==
    /\ Len(builder_log) < MaxCalls
    /\ IF BuildInitializes
       THEN \E res \in BOOLEAN :
              /\ BuilderInitializeBody(res)
              /\ builder_log' = Append(builder_log,
                     [op |-> "build", res |-> IF res THEN BuildReturn ELSE "none_none"])
       ELSE /\ builder_log' = Append(builder_log, [op |-> "build", res |-> BuildReturn])
            /\ UNCHANGED <<builder_feed, builder_detector, capture, handle_releases,
                           measure_fps, fps_timestamps, detection_delegate>>
    /\ UNCHANGED <<builder_enable_yolo, det_class, model, det_log, camera_class, read_ok>>
    /\ UNCHANGED <<feed_class, postprocessors, last_fps, now, fnreads, gen, yielded,
                   readLog, callLog, lastNext>>
    /\ UNCHANGED <<srvVars, appVars>>

\* ============================================================ the camera object
MaxCamReads == 4

\* Time since _fps_start_time at a read, in ticks: under, at and over one second
CamElapsed == {5, 10, 15}

\* camera_feed.py:58-60  (False, None) without a handle; otherwise what the device
\* returns (an unopened handle reads nothing)
CameraFeedReadOk(deviceOk) == camera = "open" /\ deviceOk

\* camera_feed.py:58-66  _frame_count after a read: nothing is counted without a
\* handle; otherwise the read is counted whatever it returned
CameraFeedFrameCountAfter(elapsed) ==
    IF camera = "none" THEN frame_count
    ELSE IF elapsed > FpsInterval THEN 0 ELSE frame_count + 1

\* camera_feed.py:63-64  _current_fps after a read
CameraFeedFpsAfter(elapsed) ==
    IF camera # "none" /\ elapsed > FpsInterval THEN <<frame_count + 1, elapsed>>
    ELSE current_fps

\* camera.py:58-86, camera_feed.py:53-67  one read_frame call on the camera object
CameraObjectRead ==
    /\ nreads < MaxCamReads
    /\ nreads' = nreads + 1
    /\ \E deviceOk \in BOOLEAN, elapsed \in CamElapsed :
         IF camera_class = "capture"
         THEN LET ok == CameraReadOk(deviceOk)
              IN /\ read_ok' = ok
                 /\ frame_count' = FrameCountAfter(ok, elapsed)
                 /\ current_fps' = CurrentFpsAfter(ok, elapsed)
         ELSE /\ read_ok' = CameraFeedReadOk(deviceOk)
              /\ frame_count' = CameraFeedFrameCountAfter(elapsed)
              /\ current_fps' = CameraFeedFpsAfter(elapsed)
    /\ UNCHANGED <<serverVars, loopBusy, connVars>>
    /\ UNCHANGED <<builder_feed, builder_detector, builder_enable_yolo, builder_log,
                   det_class, model, det_log, camera_class>>
    /\ UNCHANGED <<feedVars, appVars>>

\* camera.py:121-125, camera_feed.py:72-75  release(): the handle is dropped
CameraObjectRelease ==
    /\ camera # "none"
    /\ camera' = "none"
    /\ UNCHANGED <<detector, latest_detections, latest_frame, latest_processed,
                   detection_task, task_creator, loopBusy, connVars, cameraVars>>
    /\ UNCHANGED <<feedVars, appVars, extVars>>

\* ====================================================== the pedestrian detector
MaxDetOps == 3

\* detector.py:84-105, pedestrian_detector.py:57-109  the model after initialize():
\* loaded when it succeeds.  When it fails the service class sets the model to None; the
\* legacy class assigns nothing in its except branch, so the model is what it was or
\* the object loaded before the failing step.
ModelAfterInitialize(ok) ==
    IF ok THEN {"loaded"}
    ELSE IF det_class = "service" THEN {"none"} ELSE {model, "loaded"}

\* detector.py:116-117, pedestrian_detector.py:118-119  detect() without a model: the
\* service class raises RuntimeError, the legacy class returns an empty list; with a
\* model the call returns a list, or the model raises
DetectResults ==
    IF model = "none"
    THEN IF det_class = "service" THEN {"runtime_error"} ELSE {"list"}
    ELSE {"list", "error"}

\* detector.py:78-105, pedestrian_detector.py:57-109  initialize()
DetectorInitialize ==
    /\ Len(det_log) < MaxDetOps
    /\ \E ok \in BOOLEAN :
         /\ model' \in ModelAfterInitialize(ok)
         /\ det_log' = Append(det_log, [op |-> "initialize",
                                        res |-> IF ok THEN "true" ELSE "false"])
    /\ UNCHANGED <<builder_feed, builder_detector, builder_enable_yolo, builder_log,
                   det_class, camera_class, read_ok>>
    /\ UNCHANGED <<srvVars, feedVars, appVars>>

\* detector.py:107-153, pedestrian_detector.py:116-135  detect(frame)
DetectorDetect ==
    /\ Len(det_log) < MaxDetOps
    /\ \E res \in DetectResults : det_log' = Append(det_log, [op |-> "detect", res |-> res])
    /\ UNCHANGED <<builder_feed, builder_detector, builder_enable_yolo, builder_log,
                   det_class, model, camera_class, read_ok>>
    /\ UNCHANGED <<srvVars, feedVars, appVars>>

\* detector.py:247-250, pedestrian_detector.py:167-169  release()
DetectorRelease ==
    /\ Len(det_log) < MaxDetOps
    /\ model' = "none"
    /\ det_log' = Append(det_log, [op |-> "release", res |-> "none"])
    /\ UNCHANGED <<builder_feed, builder_detector, builder_enable_yolo, builder_log,
                   det_class, camera_class, read_ok>>
    /\ UNCHANGED <<srvVars, feedVars, appVars>>

\* ================================================================ the application
NoExit == 0 - 1

\* main.py:17-23  Application.__init__
AppConstructed ==
    /\ app_pc = "camera"
    /\ app_camera = "none"
    /\ app_detector = "none"
    /\ server_started = FALSE
    /\ stop_cause = "none"
    /\ exit_code = NoExit
    /\ cam_releases = 0
    /\ det_releases = 0

\* What can end a step of the try block other than its return: KeyboardInterrupt or
\* another exception
Raises == {"kbd", "error"}

\* Mutant: a KeyboardInterrupt is reported as a failure.
ExitCodeInterruptFails(cause) == IF cause = "returned" THEN 0 ELSE 1

\* main.py:101-102, 122, 124-129  the value run returns for each way out of the try block
ExitCodeOf(cause) == IF cause \in {"returned", "kbd"} THEN 0 ELSE 1

\* main.py:101-102, 122-131  run leaves its try block: the return value is fixed and
\* the finally block is next
LeaveTry(cause) ==
    /\ stop_cause' = cause
    /\ exit_code' = ExitCodeOf(cause)
    /\ app_pc' = "cleanup"

\* main.py:33-51, 99-102  initialize_camera: the object is assigned before it is
\* initialized; False makes run return 1
AppInitializeCamera ==
    /\ app_pc = "camera"
    /\ \/ /\ app_camera' = "open"
          /\ app_pc' = "detector"
          /\ UNCHANGED <<stop_cause, exit_code>>
       \/ /\ app_camera' = "failed"
          /\ LeaveTry("camera_failed")
       \/ \E e \in Raises, assigned \in BOOLEAN :
            /\ app_camera' = IF assigned THEN "failed" ELSE "none"
            /\ LeaveTry(e)
    /\ UNCHANGED <<app_detector, server_started, cam_releases, det_releases>>
    /\ UNCHANGED <<srvVars, feedVars, extVars>>

\* Mutant: a detector that fails to initialize makes run return 1.
DetectorFailAbortsRun == TRUE

\* main.py:104-107  a detector that fails to initialize only logs a warning
DetectorFailAborts == FALSE

\* main.py:53-76, 104-107  initialize_detector: nothing is created when YOLO is
\* disabled; otherwise the object is assigned before it is initialized
AppInitializeDetector ==
    /\ app_pc = "detector"
    /\ \/ \E enable_yolo \in BOOLEAN, ok \in BOOLEAN :
            /\ app_detector' = IF ~enable_yolo THEN "none"
                               ELSE IF ok THEN "ready" ELSE "failed"
            /\ IF enable_yolo /\ ~ok /\ DetectorFailAborts
               THEN LeaveTry("detector_failed")
               ELSE app_pc' = "server" /\ UNCHANGED <<stop_cause, exit_code>>
       \/ \E e \in Raises, assigned \in BOOLEAN :
            /\ app_detector' = IF assigned THEN "failed" ELSE "none"
            /\ LeaveTry(e)
    /\ UNCHANGED <<app_camera, server_started, cam_releases, det_releases>>
    /\ UNCHANGED <<srvVars, feedVars, extVars>>

\* main.py:88-89  self.detector is installed whenever it is not None: an object whose
\* initialize failed is installed with its model still None
InstalledDetector(d) ==
    IF d = "none" THEN "none" ELSE IF d = "ready" THEN "ready" ELSE "uninit"

\* main.py:78-91, 109-110  initialize_server
AppInitializeServer ==
    /\ app_pc = "server"
    /\ \/ /\ camera' = IF app_camera = "none" THEN "none"
                     ELSE IF app_camera = "open" THEN "open" ELSE "closed"
          /\ detector' = InstalledDetector(app_detector)
          /\ app_pc' = "run"
          /\ UNCHANGED <<stop_cause, exit_code>>
       \/ \E e \in Raises :
            /\ LeaveTry(e)
            /\ UNCHANGED <<camera, detector>>
    /\ UNCHANGED <<app_camera, app_detector, server_started, cam_releases, det_releases>>
    /\ UNCHANGED <<latest_detections, latest_frame, latest_processed, detection_task,
                   task_creator, loopBusy, connVars, cameraVars>>
    /\ UNCHANGED <<feedVars, extVars>>

\* main.py:120, server.py:274-282  server.run() is called
AppRunServer ==
    /\ app_pc = "run"
    /\ app_pc' = "serving"
    /\ server_started' = TRUE
    /\ UNCHANGED <<app_camera, app_detector, stop_cause, exit_code, cam_releases,
                   det_releases>>
    /\ UNCHANGED <<srvVars, feedVars, extVars>>

\* server.py:87-91, 274-282  while server.run() runs, the server handles requests
AppServe ==
    /\ app_pc = "serving"
    /\ \/ ConnStep(1)
       \/ DetectionLoopStep
       \/ HandleDetections

\* main.py:120-129  server.run() returns, or it is left by a KeyboardInterrupt or by
\* another exception
AppServerStops ==
    /\ app_pc = "serving"
    /\ \E cause \in {"returned"} \cup Raises : LeaveTry(cause)
    /\ UNCHANGED <<app_camera, app_detector, server_started, cam_releases, det_releases>>
    /\ UNCHANGED <<srvVars, feedVars, extVars>>

\* Mutant: cleanup releases nothing.
CleanupReleasesNothing(obj) == FALSE

\* main.py:135, 139  cleanup releases the objects that are not None
CleanupReleases(obj) == obj # "none"

\* main.py:130-141, camera.py:121-125, detector.py:247-250  finally: self.cleanup();
\* then run returns
AppCleanup ==
    /\ app_pc = "cleanup"
    /\ cam_releases' = IF CleanupReleases(app_camera) THEN cam_releases + 1 ELSE cam_releases
    /\ det_releases' = IF CleanupReleases(app_detector) THEN det_releases + 1
                       ELSE det_releases
    /\ camera' = IF CleanupReleases(app_camera) /\ camera # "none" THEN "closed" ELSE camera
    /\ detector' = IF CleanupReleases(app_detector) /\ detector # "none" THEN "uninit"
                   ELSE detector
    /\ app_pc' = "done"
    /\ UNCHANGED <<app_camera, app_detector, server_started, stop_cause, exit_code>>
    /\ UNCHANGED <<latest_detections, latest_frame, latest_processed, detection_task,
                   task_creator, loopBusy, connVars, cameraVars>>
    /\ UNCHANGED <<feedVars, extVars>>

AppNext ==
    \/ AppInitializeCamera
    \/ AppInitializeDetector
    \/ AppInitializeServer
    \/ AppRunServer
    \/ AppServe
    \/ AppServerStops
    \/ AppCleanup

\* ============================================================== specifications
Init == ServerInit /\ FeedConstructed /\ AppConstructed /\ ExtConstructed
Next == ServerNext
Spec == Init /\ [][Next]_vars

FeedSpecInit == FeedInit /\ ServerInit /\ camera = "none" /\ detector = "none" /\ AppConstructed /\ ExtConstructed
FeedSpecNext == FeedStep
FeedSpec == FeedSpecInit /\ [][FeedSpecNext]_vars

\* The FPS window of an initialized delegate feed whose get_raw_stream is being consumed
FpsSpecInit ==
    /\ ServerInit /\ camera = "none" /\ detector = "none" /\ AppConstructed /\ ExtConstructed
    /\ feed_class = "delegate" /\ postprocessors = <<>>
    /\ capture = "open"
    /\ handle_releases = 0
    /\ detection_delegate = "none"
    /\ measure_fps \in BOOLEAN
    /\ fps_timestamps = <<>>
    /\ last_fps = ZeroFps
    /\ now = 0
    /\ fnreads = 0
    /\ gen = [mode |-> "raw", state |-> "fresh"]
    /\ yielded = <<>>
    /\ readLog = <<>>
    /\ callLog = <<>>
    /\ lastNext = "none"
FpsSpecNext ==
    \/ FpsRead
    \/ SetMeasureFps
FpsSpec == FpsSpecInit /\ [][FpsSpecNext]_vars

\* A delegate feed that has been initialized once and is never initialized again:
\* its sequences are consumed one after the other to their end.
RestartSpecInit ==
    /\ ServerInit /\ camera = "none" /\ detector = "none" /\ AppConstructed /\ ExtConstructed
    /\ feed_class = "delegate" /\ postprocessors = <<>>
    /\ capture = "open"
    /\ handle_releases = 0
    /\ detection_delegate = "none"
    /\ measure_fps \in BOOLEAN
    /\ fps_timestamps = <<>>
    /\ last_fps = ZeroFps
    /\ now = 0
    /\ fnreads = 0
    /\ gen = NoGen
    /\ yielded = <<>>
    /\ readLog = <<>>
    /\ callLog = <<>>
    /\ lastNext = "none"
RestartSpecNext ==
    \/ GetStream
    \/ FeedNext
RestartSpec == RestartSpecInit /\ [][RestartSpecNext]_vars

\* The application from its construction: the server object has neither camera nor
\* detector until initialize_server installs them.
AppSpecInit ==
    /\ AppConstructed /\ FeedConstructed /\ ExtConstructed
    /\ ServerInit /\ camera = "none" /\ detector = "none"
AppSpecNext == AppNext
AppSpec == AppSpecInit /\ [][AppSpecNext]_vars

\* A builder as constructed, with or without a feed object handed to it
\* (scripts/detect_on_video_v2.py:20-23), on which initialize() and build() are called
BuilderSpecInit ==
    /\ ServerInit /\ camera = "none" /\ detector = "none" /\ AppConstructed
    /\ FeedConstructed
    /\ builder_feed \in BOOLEAN
    /\ builder_detector = "none"
    /\ builder_enable_yolo \in BOOLEAN
    /\ builder_log = <<>>
    /\ det_class = "legacy" /\ model = "none" /\ det_log = <<>>
    /\ camera_class = "capture" /\ read_ok = FALSE
BuilderSpecNext ==
    \/ BuilderInitialize
    \/ BuilderBuild
BuilderSpec == BuilderSpecInit /\ [][BuilderSpecNext]_vars

\* A camera object of either class after initialize() (the handle held, opened or not),
\* on which read_frame() is called
CamFpsSpecInit ==
    /\ ServerInit /\ camera \in {"closed", "open"} /\ detector = "none"
    /\ AppConstructed /\ FeedConstructed
    /\ builder_feed = FALSE /\ builder_detector = "none" /\ builder_enable_yolo = FALSE
    /\ builder_log = <<>>
    /\ det_class = "legacy" /\ model = "none" /\ det_log = <<>>
    /\ camera_class \in {"capture", "feed"}
    /\ read_ok = FALSE
CamFpsSpecNext ==
    \/ CameraObjectRead
    \/ CameraObjectRelease
CamFpsSpec == CamFpsSpecInit /\ [][CamFpsSpecNext]_vars

\* A pedestrian detector of either class from its construction
DetectorSpecInit ==
    /\ ServerInit /\ camera = "none" /\ detector = "none"
    /\ AppConstructed /\ FeedConstructed
    /\ builder_feed = FALSE /\ builder_detector = "none" /\ builder_enable_yolo = FALSE
    /\ builder_log = <<>>
    /\ det_class \in {"service", "legacy"}
    /\ model = "none" /\ det_log = <<>>
    /\ camera_class = "capture" /\ read_ok = FALSE
DetectorSpecNext ==
    \/ DetectorInitialize
    \/ DetectorDetect
    \/ DetectorRelease
DetectorSpec == DetectorSpecInit /\ [][DetectorSpecNext]_vars

\* A legacy feed (or camera) with its postprocessing steps added, the handle open
PipeSpecInit ==
    /\ ServerInit /\ camera = "none" /\ detector = "none"
    /\ AppConstructed /\ ExtConstructed
    /\ feed_class = "legacy" /\ postprocessors \in PipeLists
    /\ capture = "open"
    /\ handle_releases = 0
    /\ detection_delegate = "none"
    /\ measure_fps = FALSE
    /\ fps_timestamps = <<>>
    /\ last_fps = ZeroFps
    /\ now = 0
    /\ fnreads = 0
    /\ gen = NoGen
    /\ yielded = <<>>
    /\ readLog = <<>>
    /\ callLog = <<>>
    /\ lastNext = "none"
PipeSpecNext ==
    \/ PipeGetStream
    \/ PipeNext
PipeSpec == PipeSpecInit /\ [][PipeSpecNext]_vars

\* ================================================================ claims (FeedSpec)
\* The frames the current sequence's reads returned (failed reads left out).
FramesRead == SelectSeq(readLog, LAMBDA f : f # NoFrame)

\* C2: when the reads of a frame source are N successes followed by one failure
\* (N >= 0), get_raw_stream yields exactly those N frames, in read order, and then
\* ends without raising.
C2_RawStreamYieldsReadsUntilFailure ==
    gen.mode = "raw" =>
        LET n == Len(yielded)
        IN /\ \A i \in 1..n :
                /\ readLog[i] # NoFrame
                /\ yielded[i] = Item(NoneDet, Raw(readLog[i]))
                /\ \A j \in 1..n : i < j => readLog[i].id < readLog[j].id
           /\ gen.state \in {"fresh", "suspended"} => Len(readLog) = n
           /\ gen.state = "finished" =>
                /\ Len(readLog) = n + 1 /\ readLog[n + 1] = NoFrame
                /\ lastNext = "stop"
           /\ gen.state # "raised" /\ lastNext # "raise"
           /\ callLog = <<>>

C2_Witness ==
    /\ gen.mode = "raw" /\ gen.state = "finished"
    /\ Len(yielded) = 2 /\ Len(readLog) = 3

\* C3: with a delegate installed, get_full_stream calls detect(frame) and then
\* draw_detections(frame, detections) exactly once each for every raw frame, in that
\* order, and yields exactly (what detect returned, what draw_detections returned).
C3_FullStreamYieldsDelegateResults ==
    (gen.mode = "full" /\ detection_delegate = "set") =>
        LET n == Len(yielded)
            F == FramesRead
        IN /\ n <= Len(F) /\ 2 * n <= Len(callLog)
           /\ \A i \in 1..n :
                LET det == callLog[2 * i - 1]
                    draw == callLog[2 * i]
                IN /\ det.op = "detect" /\ det.frame = F[i] /\ ~det.raised
                   /\ draw.op = "draw" /\ draw.frame = F[i] /\ ~draw.raised
                   /\ draw.arg = det.rdet
                   /\ yielded[i] = Item(det.rdet, draw.rimg)
           /\ gen.state # "raised" => (n = Len(F) /\ Len(callLog) = 2 * n)
           /\ gen.state = "raised" => (n + 1 = Len(F) /\ Len(callLog) \in {2 * n + 1, 2 * n + 2})

C3_Witness ==
    /\ gen.mode = "full" /\ detection_delegate = "set"
    /\ Len(yielded) = 2
    /\ yielded[1].img.ovl >= 0 /\ yielded[2].img.ovl = -1

C10_DelegateExceptionPropagates ==
    /\ [](gen.mode \in {"full", "data"} =>
            /\ \A i \in 1..Len(callLog) :
                  callLog[i].raised => (i = Len(callLog) /\ gen.state = "raised")
            /\ gen.state = "raised" =>
                  /\ callLog # <<>> /\ callLog[Len(callLog)].raised
                  /\ callLog[Len(callLog)].frame = FramesRead[Len(FramesRead)]
                  /\ Len(yielded) = Len(FramesRead) - 1
                  /\ lastNext \in {"raise", "stop"})
    /\ [][/\ (gen.state \in {"fresh", "suspended"} /\ gen'.state = "raised") =>
                (lastNext' = "raise" /\ yielded' = yielded)
          /\ (gen.state = "raised" /\ gen' = gen) =>
                /\ yielded' = yielded /\ fnreads' = fnreads /\ callLog' = callLog
                /\ lastNext' \in {lastNext, "stop"}
         ]_vars

C10_Witness ==
    /\ gen.mode \in {"full", "data"} /\ gen.state = "raised"
    /\ Len(yielded) = 1 /\ lastNext = "stop"

\* C18: release() is idempotent: it can be called in every state (never initialized,
\* open, already released) with a normal outcome, the handle initialize() created is
\* released at most once, a release() on a released or never initialized feed changes
\* nothing, and is_opened() is false after each call.
C18_ReleaseIsIdempotent ==
    /\ [](/\ handle_releases \in 0..1
          /\ ENABLED FeedRelease
          /\ capture = "none" =>
                (~IsOpened /\ ~ENABLED (FeedRelease /\ feedVars' # feedVars)))
    /\ [][(capture # "none" /\ capture' = "none") =>
            /\ handle_releases' = 1 /\ ~IsOpened'
            /\ UNCHANGED <<gen, yielded, readLog, callLog, fnreads, fps_timestamps, last_fps>>
         ]_vars

C18_Witness == capture = "none" /\ handle_releases = 1 /\ ENABLED FeedRelease

\* C19: after release(), and before initialize(), read_frame returns (False, None)
\* without raising: the next() of a raw, full or data sequence that reads the feed then
\* ends the sequence (StopIteration) and yields nothing, and no delegate is called.
C19_ReadWithoutHandleEndsSequence ==
    [][(fnreads' = fnreads + 1 /\ capture = "none") =>
          /\ readLog' = Append(readLog, NoFrame)
          /\ gen'.state = "finished" /\ lastNext' = "stop"
          /\ yielded' = yielded /\ callLog' = callLog
      ]_vars

\* A sequence that yielded a frame and ended on a released feed.
C19_Witness ==
    /\ capture = "none" /\ handle_releases = 1
    /\ gen.state = "finished" /\ lastNext = "stop"
    /\ Len(yielded) = 1 /\ Len(readLog) = 2

\* C20: initialize() on a device that cannot be opened leaves the feed's state exactly
\* as it was before the call (no handle is retained): the only change initialize()
\* ever makes to the handle is to hold an open one.
C20_FailedInitializeChangesNothing ==
    [][(capture' # capture /\ capture' # "none") => capture' = "open"]_vars

\* What detect returned for the i-th frame of a data sequence, as the outcome that
\* the same delegate gives get_full_stream for that frame.
DetectOutcomeAt(i) ==
    IF detection_delegate = "none" THEN [raised |-> FALSE, n |-> 0]
    ELSE [raised |-> FALSE, n |-> callLog[i].rdet.n]

FrameReadStep == fnreads' = fnreads + 1 /\ readLog'[Len(readLog')] # NoFrame

\* C11: with measurement enabled, after every successfully read frame the FPS window
\* holds exactly the earlier timestamps t with now - window <= t and the new one, now
\* (a timestamp exactly one window old is kept), and the reported FPS is
\* (count - 1) / (newest - oldest) when count > 1 and that span is positive, 0 otherwise;
\* stamps 0.0, 0.3, 0.6, 0.9 give 3/0.9 and a further stamp 1.1 evicts 0.0 and gives
\* 3/0.8.
C11_FpsWindowAfterRead ==
    /\ [][(FrameReadStep /\ measure_fps) =>
            LET w == fps_timestamps'
                n == Len(w)
                t == now'
                old == fps_timestamps
                kept == {j \in 1..Len(old) : t - 10 <= old[j]}
            IN /\ n = Cardinality(kept) + 1 /\ w[n] = t
               /\ \A i \in 1..n : t - 10 <= w[i] /\ w[i] <= t
               /\ \A j \in kept : w[j - (Len(old) - Cardinality(kept))] = old[j]
               /\ last_fps' = IF n > 1 /\ w[n] - w[1] > 0
                               THEN <<n - 1, w[n] - w[1]>>
                               ELSE <<0, 1>>
               /\ (old = <<0, 3, 6, 9>> /\ t = 11) => w = <<3, 6, 9, 11>>
         ]_vars
    /\ [](fps_timestamps = <<0, 3, 6, 9>> => last_fps = <<3, 9>>)
    /\ [](fps_timestamps = <<3, 6, 9, 11>> => last_fps = <<3, 8>>)

C11_Witness ==
    /\ measure_fps /\ now = 11
    /\ fps_timestamps = <<3, 6, 9, 11>> /\ last_fps = <<3, 8>>

\* C12: setting measure_fps, to false or to true, leaves an empty FPS window, so the
\* first read after it starts the window anew (one timestamp, FPS 0), and no timestamp
\* that has left the window is ever in it again: no timestamp recorded before a toggle
\* is used in an FPS value computed after it.
C12_ToggleClearsWindow ==
    /\ [][/\ fnreads' = fnreads => fps_timestamps' = <<>>
          /\ (FrameReadStep /\ measure_fps /\ fps_timestamps = <<>>) =>
                (fps_timestamps' = <<now'>> /\ last_fps' = <<0, 1>>)
          /\ \A i \in 1..Len(fps_timestamps') :
                \/ i = Len(fps_timestamps') /\ fps_timestamps'[i] = now'
                \/ \E j \in 1..Len(fps_timestamps) : fps_timestamps[j] = fps_timestamps'[i]
         ]_vars
    /\ [](~measure_fps => fps_timestamps = <<>>)

\* Timestamps were recorded (the FPS value comes from them) and a set has emptied the
\* window.
C12_Witness ==
    /\ measure_fps /\ fps_timestamps = <<>> /\ last_fps = <<2, 5>>

\* C13: while measure_fps is false, a frame read through get_raw_stream leaves the FPS
\* window and the fps value unchanged, and setting measure_fps does not change the fps
\* value: the fps property keeps the last value computed while measurement was
\* enabled.
C13_DisabledMeasurementFreezesFps ==
    [][/\ (fnreads' = fnreads + 1 /\ ~measure_fps) =>
            (fps_timestamps' = fps_timestamps /\ last_fps' = last_fps)
       /\ fnreads' = fnreads => last_fps' = last_fps
      ]_vars

C13_Witness ==
    /\ ~measure_fps /\ fps_timestamps = <<>>
    /\ last_fps = <<3, 9>> /\ now = 9 /\ fnreads = MaxStamps /\ Len(yielded) = MaxStamps

\* ==================================================================== claims (Spec)

\* C1: a GET /stream made when no camera is installed, or when the installed camera's
\* is_opened() is false, is answered with status 503, and that handler makes no
\* read_frame call, prepares no streaming response and creates no detection task.
C1_UnavailableStreamIs503 ==
    \A c \in Conns :
        /\ (pc[c] # "idle" /\ camera \in {"none", "closed"}) => status[c] = 503
        /\ status[c] = 503 =>
              /\ pc[c] = "done" /\ outcome[c] = "returned"
              /\ reads[c] = 0 /\ ~prepared[c] /\ task_creator # c
              /\ detection_task = "none" /\ nreads = 0

C1_Witness == \E c \in Conns : status[c] = 503 /\ camera = "closed"

\* A step in which connection c's frame was read but failed to encode.
EncodeFailedStep(c) ==
    /\ pc[c] = "reading"
    /\ latest_frame' = Frame(nreads', c) /\ nreads' = nreads + 1
    /\ pc'[c] # "write"

\* C5: a frame whose JPEG encoding fails is skipped without closing the connection:
\* the connection stays in its streaming loop (it waits, then reads again), and a later
\* frame that encodes is handed to the write.
C5_EncodeFailureSkipsFrame ==
    /\ [][\A c \in Conns :
            /\ EncodeFailedStep(c) =>
                  /\ pc'[c] = "sleep_enc" /\ skipped'[c]
                  /\ outcome'[c] = "none" /\ pending'[c] = "none"
                  /\ buf'[c] = buf[c]
            /\ (pc[c] = "sleep_enc" /\ pc'[c] # "sleep_enc") =>
                  \/ pc'[c] = "read"
                  \/ pc'[c] = "eof" /\ pending'[c] = "none"
         ]_vars
    /\ [](\A c \in Conns : (skipped[c] /\ pc[c] = "write") => buf[c] # Unset)

C5_Witness == \E c \in Conns : skipped[c] /\ pc[c] = "write" /\ buf[c] # Unset

\* A handler that has a step to take as soon as the event loop runs it.
HasPendingStep(d) ==
    pc[d] \in {"idle", "prepare", "sleep_read", "sleep_enc", "write", "yield", "eof"}

\* C6: while a /stream connection waits, at its frame-source read or at a chunk write,
\* every other /stream handler with a step to take, and the /detections and /fps
\* handlers, can take their next step.
C6_WaitingConnectionBlocksNobody ==
    \A c \in Conns :
        pc[c] \in {"reading", "write"} =>
            /\ ENABLED HandleDetections
            /\ ENABLED HandleFps
            /\ \A d \in Conns \ {c} : HasPendingStep(d) => ENABLED ConnStep(d)

\* A step by which connection c leaves its loop on a disconnect or a cancellation, or
\* completes the finally block.
TerminationStep(c) ==
    \/ LoopSuspended(c) /\ pc'[c] = "eof"
    \/ pc[c] = "eof" /\ pc'[c] = "done"
    \/ pc[c] = "prepare" /\ pc'[c] = "done"

\* C7: when one /stream connection terminates by client disconnect or cancellation,
\* the camera is not released (is_opened() stays true), the detector is not released,
\* and every other /stream connection is left where it was, still streaming.
C7_TerminationReleasesNothing ==
    /\ [][\A c \in Conns :
            TerminationStep(c) =>
                /\ camera' = camera /\ camera' = "open"
                /\ detector' = detector
                /\ detection_task' = detection_task
                /\ \A d \in Conns \ {c} :
                      /\ pc'[d] = pc[d] /\ outcome'[d] = outcome[d]
                      /\ pending'[d] = pending[d] /\ buf'[d] = buf[d]
         ]_vars
    /\ [](\A d \in Conns :
            (prepared[d] /\ pc[d] \notin {"eof", "done"}) =>
                camera = "open" /\ detector # "released")

C7_Witness ==
    \E c \in Conns, d \in Conns :
        /\ c # d
        /\ pc[c] = "done" /\ prepared[c] /\ outcome[c] = "returned"
        /\ pc[d] = "write" /\ buf[d].src.id = MaxReads
        /\ camera = "open"

C9_DelegateFailureClosesItsConnection ==
    [][(detection_task = "running" /\ detection_task' = "failed") =>
          /\ pc'[latest_frame.by] \in {"eof", "done"}
          /\ \A d \in Conns \ {latest_frame.by} : pc'[d] = pc[d]
          /\ camera' = "open"
      ]_vars

\* C14: GET /fps returns the feed's current sliding-window FPS value, and 0 whenever
\* no feed is installed, FPS measurement is disabled, or the feed is closed.
C14_FpsIsWindowValue ==
    FpsResponse = IF camera = "none" \/ camera = "closed" \/ ~measure_fps
                  THEN ZeroFps
                  ELSE last_fps

\* C15: every GET /detections response is a consistent snapshot of the cache: count is
\* the length of the returned list, which is the cache, enabled is true exactly when a
\* detector is installed, and before any frame has been processed the response has
\* count 0 and an empty list.
C15_DetectionsSnapshot ==
    LET r == DetectionsResponse
    IN /\ r.detections = latest_detections
       /\ r.count = r.detections.n
       /\ r.enabled <=> detector = "ready"
       /\ (detection_task # "failed" /\ latest_processed = Unset) =>
             (r.count = 0 /\ r.detections = EmptyList)

C15_Witness ==
    /\ ENABLED HandleDetections
    /\ latest_detections.n = MaxDet /\ latest_detections.of.id = 1
    /\ DetectionsResponse.count = MaxDet /\ DetectionsResponse.enabled

\* C16: whatever the connections do, the cache is the list returned by one single
\* detect call: every write replaces it by what detect returned for the frame taken
\* from the pending slot, whatever it held before; results of different frames are
\* never merged or accumulated.
C16_CacheIsOneDetectResult ==
    /\ [][latest_detections' # latest_detections =>
            /\ detection_task = "running" /\ latest_frame # NoFrame
            /\ \E n \in 0..MaxDet : latest_detections' = Det(latest_frame, n)
         ]_vars
    /\ [](\/ latest_detections = EmptyList
          \/ /\ latest_detections.of.id \in 1..nreads
             /\ latest_detections.n \in 0..MaxDet)

\* The cache holds the result of the frame read by one connection after having held
\* that of a frame read by the other, whose overlay is still being written.
C16_Witness ==
    \E c \in Conns :
        /\ pc[c] = "write" /\ buf[c].ovl = MaxDet /\ buf[c].src.id = 1
        /\ latest_detections.of.id = 2 /\ latest_detections.n = MaxDet
        /\ latest_detections.of.by # buf[c].src.by

\* C17: the cache is overwritten only by a non-empty detection list: a frame whose
\* detection result is null or an empty list leaves the cache holding the previous
\* non-empty result.
C17_EmptyResultKeepsCache ==
    [][latest_detections.n > 0 =>
          (latest_detections' = latest_detections \/ latest_detections'.n > 0)
      ]_vars

\* ============================================================ claims (RestartSpec)
\* C21: a raw sequence is not restartable: once a sequence of the feed has terminated
\* because a read failed, a new get_raw_stream sequence on the same feed yields no
\* frame unless initialize() has been called again in between.
C21_RawStreamNotRestartable ==
    (gen.mode = "raw" /\ fnreads > Len(readLog)) => yielded = <<>>

\* ============================================================ claims (Spec, continued)
\* C23: frames are not broadcast: every frame-source read is made by the iteration of
\* exactly one /stream connection, which counts one more iteration while the other
\* connections' counts stay, so the total number of reads is the sum of the iterations
\* of all connections; and no connection ends an iteration without a read of its own.
C23_OneReadPerConnectionIteration ==
    /\ [](nreads = reads[1] + reads[2])
    /\ [][/\ nreads' # nreads =>
               \E c \in Conns :
                   /\ pc[c] = "reading" /\ pc'[c] # "reading"
                   /\ nreads' = nreads + 1
                   /\ reads'[c] = reads[c] + 1
                   /\ \A d \in Conns \ {c} : reads'[d] = reads[d]
            /\ \A e \in Conns :
                   (pc[e] = "reading" /\ pc'[e] # "reading") =>
                       (reads'[e] = reads[e] + 1 /\ nreads' = nreads + 1)]_vars

C23_Witness ==
    reads[1] = 1 /\ reads[2] = 1 /\ nreads = 2

\* C24: GET /detections, /fps and /settings read and compute only: whenever the event
\* loop is free each of them runs to its return, whatever the /stream loops and the
\* detection task are waiting for and whether or not a frame was ever produced; and
\* every frame-source read and every change of the FPS state is the read step of a
\* /stream connection, every change of the Latest-Detections Cache a step of the
\* detection task, and every change of the pending-frame slot one of those two steps.
C24_ReadOnlyEndpoints ==
    /\ [](loopBusy = 0 =>
            (ENABLED HandleDetections /\ ENABLED HandleFps /\ ENABLED HandleSettings))
    /\ [][LET readStep == loopBusy \in Conns /\ pc[loopBusy] = "reading" /\ loopBusy' = 0
               taskStep == /\ detection_task = "running" /\ loopBusy = 0
                           /\ latest_frame # NoFrame /\ detector # "none"
                           /\ latest_frame' = NoFrame
           IN /\ ((\/ nreads' # nreads
                    \/ frame_count' # frame_count
                    \/ current_fps' # current_fps) => readStep)
              /\ (latest_frame' # latest_frame => (readStep \/ taskStep))
              /\ ((latest_detections' # latest_detections
                    \/ latest_processed' # latest_processed) => taskStep)]_vars

C24_Witness ==
    /\ ENABLED HandleDetections /\ ENABLED HandleFps /\ ENABLED HandleSettings
    /\ \E c \in Conns : pc[c] = "write"
    /\ latest_detections # EmptyList
    /\ current_fps # ZeroFps
    /\ nreads = MaxReads

\* The read of connection c returned a failure in this step
ReadFailedStep(c) ==
    pc[c] = "reading" /\ pc'[c] # "reading" /\ latest_frame' # Frame(nreads', c)

\* C25: when the frame source reports a failed read to a streaming connection, the
\* connection's frame sequence ends: the handler goes on to close the response, without
\* another read.
C25_FailedReadEndsStream ==
    [][\A c \in Conns : ReadFailedStep(c) => pc'[c] = "eof"]_vars

\* C26: every response's header block is sent with the CORS headers set: in the step
\* that sends the header block of a connection's response, the Access-Control headers
\* have been set on it.
C26_CorsHeadersBeforeHeaderBlock ==
    [][\A c \in Conns : (~HeadersSent(c) /\ HeadersSent(c)') => CorsHeadersSet(c)']_vars

\* C34: with a detector installed, every image part written on a /stream connection is
\* the overlay drawn on the frame this connection read in the same iteration: the image
\* encoded after a read shows the frame just read, with an overlay on it.
C34_PartIsOverlayOfOwnFrame ==
    [][\A c \in Conns :
          (detector # "none" /\ pc[c] = "reading" /\ pc'[c] = "write") =>
              (buf'[c].src = Frame(nreads', c) /\ buf'[c].ovl >= 0)]_vars

\* C35: every iteration of a /stream loop passes through a suspension point before the
\* next read: a read is followed by the write and the sleep(0), or by the sleep after a
\* failed read or a failed encode, never by the next read; and the loop comes to a read
\* only from an await that has returned, with the event loop free.
C35_SuspensionBeforeNextRead ==
    [][\A c \in Conns :
          /\ ((pc[c] = "reading" /\ pc'[c] # "reading") =>
                 pc'[c] \in {"write", "sleep_read", "sleep_enc"})
          /\ ((pc[c] = "write" /\ pc'[c] # "write") => pc'[c] \in {"yield", "eof"})
          /\ ((pc[c] # "read" /\ pc'[c] = "read") =>
                 (pc[c] \in {"prepare", "yield", "sleep_read", "sleep_enc"}
                  /\ loopBusy = 0 /\ loopBusy' = 0))]_vars

C35_Witness ==
    /\ reads[1] = MaxReads /\ reads[2] = 0
    /\ pc[1] = "sleep_read" /\ loopBusy = 0

\* C37: at most one detection task exists on a server: it is created by the first
\* connection whose prepare completes, no other task is created after it (not even after
\* it has ended), and no step of a connection (its termination included) cancels it.
C37_OneDetectionTask ==
    /\ [](detection_task = "none" <=> task_creator = 0)
    /\ [][/\ ((task_creator' # task_creator) =>
                (/\ task_creator = 0 /\ detection_task = "none"
                 /\ detection_task' = "running"
                 /\ pc[task_creator'] = "prepare" /\ pc'[task_creator'] = "read"
                 /\ \A d \in Conns : ~prepared[d]))
           /\ ((detection_task' # detection_task) =>
                (\/ detection_task = "none" /\ task_creator' # 0
                 \/ /\ detection_task = "running" /\ detection_task' = "failed"
                    /\ pc' = pc /\ latest_frame # NoFrame))]_vars

C37_Witness ==
    /\ \A c \in Conns : pc[c] = "done" /\ prepared[c]
    /\ detection_task = "running" /\ task_creator = 2

\* C38: in every state a handler can observe after the first completed detection, the
\* Latest-Detections Cache and the latest processed frame come from the same source
\* frame: the processed frame is the overlay of the cached list on the frame the list
\* was detected on.
C38_CacheAndOverlaySameFrame ==
    (loopBusy = 0 /\ latest_processed # Unset) =>
        latest_processed = Overlay(latest_detections.of, latest_detections)

\* C39: the pending-frame slot holds one frame at most: a frame enters it only in the
\* step that reads it; the detection task takes the frame in the slot and empties the
\* slot in one step, and the frame it detects is that frame; so a frame is detected at
\* most once, and a frame overwritten by a later read is never detected.
C39_SlotTakenOnce ==
    [][/\ ((latest_frame' # latest_frame /\ latest_frame' # NoFrame) =>
             (nreads' = nreads + 1 /\ latest_frame'.id = nreads'))
       /\ ((latest_frame' # latest_frame /\ latest_frame' = NoFrame) =>
             (detection_task = "running" /\ detector # "none" /\ nreads' = nreads))
       /\ ((latest_detections' # latest_detections
              \/ latest_processed' # latest_processed) =>
             (/\ latest_frame # NoFrame /\ latest_frame' = NoFrame
              /\ latest_detections'.of = latest_frame
              /\ latest_detections.of.id < latest_frame.id))]_vars

C39_Witness ==
    /\ nreads = 2 /\ latest_frame = NoFrame
    /\ latest_detections.of.id = 2 /\ latest_processed.src.id = 2
    /\ detection_task = "running"

\* ================================================================ claims (AppSpec)
\* C27: run returns 1 without ever starting the web server when camera initialization
\* fails, 0 when the server returns normally or is stopped by KeyboardInterrupt, and 1
\* when any other exception is raised; it has no return value before it leaves its
\* try block.
C27_ExitCodes ==
    /\ (stop_cause = "camera_failed" => (app_camera = "failed" /\ exit_code = 1))
    /\ ((app_camera = "failed" /\ stop_cause \notin Raises) => stop_cause = "camera_failed")
    /\ (app_camera = "failed" => ~server_started)
    /\ (stop_cause = "returned" => (server_started /\ exit_code = 0))
    /\ (stop_cause = "kbd" => exit_code = 0)
    /\ (stop_cause = "error" => exit_code = 1)
    /\ (stop_cause = "none" <=> exit_code = NoExit)
    /\ (app_pc = "done" => exit_code \in {0, 1})

C27_Witness ==
    /\ app_pc = "done" /\ stop_cause = "camera_failed"
    /\ exit_code = 1 /\ ~server_started

\* C28: on every way out of run the cleanup comes after the server has stopped and
\* always completes; when run has returned, release has been called exactly once on the
\* camera and exactly once on the detector the application holds, and on nothing when
\* it holds neither; no release is made earlier.
C28_CleanupReleasesOnce ==
    /\ (app_pc = "cleanup" => (stop_cause # "none" /\ ENABLED AppCleanup))
    /\ (app_pc # "done" => (cam_releases = 0 /\ det_releases = 0))
    /\ (app_pc = "done" =>
            /\ stop_cause # "none"
            /\ cam_releases = (IF app_camera = "none" THEN 0 ELSE 1)
            /\ det_releases = (IF app_detector = "none" THEN 0 ELSE 1))

C28_Witness ==
    /\ app_pc = "done" /\ stop_cause = "error" /\ server_started
    /\ app_camera = "open" /\ app_detector = "ready"
    /\ cam_releases = 1 /\ det_releases = 1
    /\ nreads > 0

C30_FailedDetectorNotInstalled ==
    (app_pc = "serving" /\ app_detector = "failed") =>
        /\ detector = "none"
        /\ ~DetectionsResponse.enabled
        /\ latest_detections = EmptyList
        /\ latest_processed = Unset

\* ============================================================ claims (BuilderSpec)
\* C31: build() returns a server and a feed only when the feed is initialized and open
\* (and, with detection enabled, the detector initialized); in every other case,
\* a build() that follows a failed initialize() included, it returns (None, None).
C31_BuildOnlyWhenInitialized ==
    (builder_log # <<>> /\ builder_log[Len(builder_log)].op = "build") =>
        LET res == builder_log[Len(builder_log)].res
            ready == capture = "open" /\ (builder_enable_yolo => builder_detector = "ready")
        IN /\ res = "pair" => ready
           /\ ~ready => res = "none_none"

\* ============================================================ claims (CamFpsSpec)
\* C32: a failed frame read never changes the value get_fps() reports, and is not
\* counted: a read_frame call that returns failure leaves the FPS value and the frame
\* count as they were.
C32_FailedReadKeepsFps ==
    [][(nreads' = nreads + 1 /\ ~read_ok')
          => (current_fps' = current_fps /\ frame_count' = frame_count)]_vars

\* ============================================================ claims (DetectorSpec)
\* C33: detect() on a detector whose model is not loaded raises RuntimeError, and
\* detect() returns a list only while a model is loaded.
C33_DetectRaisesWithoutModel ==
    (det_log # <<>> /\ det_log[Len(det_log)].op = "detect") =>
        LET res == det_log[Len(det_log)].res
        IN /\ model = "none" => res = "runtime_error"
           /\ res = "list" => model = "loaded"

\* ================================================================ claims (PipeSpec)
\* C36: in every consumption mode each postprocessing step after the first receives the
\* frame output of the step before it, never that step's data value.
C36_StepReceivesPreviousFrame ==
    \A k \in 1..Len(callLog) :
        callLog[k].step > 1 =>
            (callLog[k].input.slot = "frame" /\ callLog[k].input.step = callLog[k].step - 1)

====
